---------------------------- MODULE Spec2Model ----------------------------
(***************************************************************************)
(* Medical knowledge graph (Medical-Agent(GraphRAG)): the typed directed   *)
(* graph store GraphKnowledgeBase, its bounded breadth-first neighbour     *)
(* query, its simple-path enumeration, its snapshots on disk, and the      *)
(* retrieval of KnowledgeRetrievalAgent that aggregates queries for a list *)
(* of reported symptoms.                                                   *)
(*                                                                         *)
(* self.graph is a networkx DiGraph.  It is modelled by its two insertion- *)
(* ordered dictionaries:                                                   *)
(*   node : the sequence of node records [name, type, label]  (G._node)    *)
(*   adj  : for every node name the sequence of its outgoing edge records  *)
(*          [to, type, label]                                   (G._adj)   *)
(* A Python dict keeps its keys unique and in insertion order; here that   *)
(* is what add_node and add_edge have to maintain.                         *)
(*                                                                         *)
(* files is the file system as load_from_file and save_to_file see it: for *)
(* every file name what the file holds.  saved is a history variable: the  *)
(* graph a file was written from, NoSnapshot while it is no such snapshot. *)
(***************************************************************************)
EXTENDS Naturals, Sequences, FiniteSets

VARIABLES graph, pre, call, ret, pc, files, saved

vars == <<graph, pre, call, ret, pc, files, saved>>

(* Python's None: an absent relation filter, a type that was not found. *)
None == "None"

---------------------------------------------------------------------------
(* graph_schema.py: each description is a label followed by examples in    *)
(* full-width parentheses, kept here as the pair <<label, examples>> (both *)
(* given in English).                                                      *)

ENTITY_TYPES ==
  [ Symptom     |-> <<"symptom", "fever, cough, headache">>,
    Disease     |-> <<"disease", "cold, flu, pneumonia">>,
    Treatment   |-> <<"treatment method", "drugs, surgery, physiotherapy">>,
    Examination |-> <<"examination item", "blood count, CT, X-ray">>,
    BodyPart    |-> <<"body part", "lungs, heart, throat">>,
    Medication  |-> <<"medication", "aspirin, ibuprofen">>,
    RiskFactor  |-> <<"risk factor", "smoking, obesity">> ]

RELATION_TYPES ==
  [ CAUSES      |-> <<"causes", "disease to symptom, risk factor to disease">>,
    TREATS      |-> <<"treats", "treatment to disease, medication to disease or symptom">>,
    REQUIRES    |-> <<"requires", "disease to examination">>,
    AFFECTS     |-> <<"affects", "disease to body part">>,
    ACCOMPANIES |-> <<"accompanies", "symptom to symptom">>,
    DIAGNOSES   |-> <<"diagnoses", "examination to disease">>,
    PREVENTS    |-> <<"prevents", "measure to disease">>,
    HAS_SYMPTOM |-> <<"has symptom", "disease to symptom">> ]

(* v.split(...)[0]: the text before the first full-width parenthesis. *)
entity_type_descriptions == [k \in DOMAIN ENTITY_TYPES |-> ENTITY_TYPES[k][1]]

relation_type_descriptions == [k \in DOMAIN RELATION_TYPES |-> RELATION_TYPES[k][1]]

---------------------------------------------------------------------------
(* The DiGraph.                                                            *)

EmptyGraph == [node |-> <<>>, adj |-> [n \in {} |-> <<>>]]

NodeNames(G) == {G.node[i].name : i \in DOMAIN G.node}

(* n in self.graph.nodes *)
has_node(G, n) == n \in NodeNames(G)

(* position of key n in the node dictionary *)
NodeIndex(G, n) == CHOOSE i \in DOMAIN G.node : G.node[i].name = n

(* position of key v in the adjacency dictionary of u; 0 when absent *)
EdgeIndex(G, u, v) ==
  IF \E i \in DOMAIN G.adj[u] : G.adj[u][i].to = v
    THEN CHOOSE i \in DOMAIN G.adj[u] : G.adj[u][i].to = v
    ELSE 0

(* self.graph.add_node(n, type=t, label=entity_type_descriptions[t]):      *)
(* a new key is appended with an empty adjacency, an existing key has its  *)
(* attributes updated in place.                                            *)
add_node(G, n, t) ==
  LET rec == [name |-> n, type |-> t, label |-> entity_type_descriptions[t]]
  IN  IF has_node(G, n)
        THEN [G EXCEPT !.node[NodeIndex(G, n)] = rec]
        ELSE [node |-> Append(G.node, rec),
              adj  |-> [m \in NodeNames(G) \cup {n} |->
                          IF m = n THEN <<>> ELSE G.adj[m]]]

(* add_edge as an undirected Graph would do it: the reverse pair is         *)
(* written as well.                                                        *)
add_edge_undirected(G, u, v, r) ==
  LET rec(x) == [to |-> x, type |-> r, label |-> relation_type_descriptions[r]]
      put(H, a, b) ==
        IF \E i \in DOMAIN H.adj[a] : H.adj[a][i].to = b
          THEN [H EXCEPT !.adj[a][CHOOSE i \in DOMAIN H.adj[a] : H.adj[a][i].to = b] = rec(b)]
          ELSE [H EXCEPT !.adj[a] = Append(@, rec(b))]
  IN  put(put(G, u, v), v, u)

(* add_edge as a MultiDiGraph would do it: every call appends a record.    *)
add_edge_multi(G, u, v, r) ==
  [G EXCEPT !.adj[u] =
     Append(@, [to |-> v, type |-> r, label |-> relation_type_descriptions[r]])]

(* self.graph.add_edge(u, v, type=r, label=relation_type_descriptions[r])  *)
(* for two present nodes: the data of an existing key v under u is         *)
(* updated in place, a new key is appended to u's adjacency.               *)
add_edge(G, u, v, r) ==
  LET rec == [to |-> v, type |-> r, label |-> relation_type_descriptions[r]]
      i   == EdgeIndex(G, u, v)
  IN  IF i # 0
        THEN [G EXCEPT !.adj[u][i] = rec]
        ELSE [G EXCEPT !.adj[u] = Append(@, rec)]

(* networkx add_edge for any two nodes: an endpoint that is not a node yet *)
(* is created without attributes before the edge is written (its 'type'    *)
(* then reads as the empty string).                                        *)
add_bare_node(G, n) ==
  IF has_node(G, n) THEN G
  ELSE [node |-> Append(G.node, [name |-> n, type |-> "", label |-> ""]),
        adj  |-> [m \in NodeNames(G) \cup {n} |-> IF m = n THEN <<>> ELSE G.adj[m]]]

nx_add_edge(G, u, v, r) == add_edge(add_bare_node(add_bare_node(G, u), v), u, v, r)

(* The writes of add_relation with the relation written first. *)
write_order_relation_first == <<"relation", "source", "target">>

(* The writes of the try block of add_relation, lines 33, 41 and 49, in    *)
(* the order of the code.                                                  *)
write_order == <<"source", "target", "relation">>

(* add_relation validating each type only when it is about to use it.      *)
add_relation_lazy(G, source, source_type, target, target_type, relation_type) ==
  IF source_type \notin DOMAIN ENTITY_TYPES THEN [graph |-> G, ret |-> FALSE]
  ELSE LET G1 == IF ~has_node(G, source) THEN add_node(G, source, source_type) ELSE G
       IN  IF target_type \notin DOMAIN ENTITY_TYPES THEN [graph |-> G1, ret |-> FALSE]
           ELSE LET G2 == IF ~has_node(G1, target)
                            THEN add_node(G1, target, target_type) ELSE G1
                IN  IF relation_type \notin DOMAIN RELATION_TYPES
                      THEN [graph |-> G2, ret |-> FALSE]
                      ELSE [graph |-> add_edge(G2, source, target, relation_type),
                            ret   |-> TRUE]

(* add_relation without the "not in self.graph.nodes" tests: add_node      *)
(* then updates the attributes of an entity that exists.                   *)
add_relation_retype(G, source, source_type, target, target_type, relation_type) ==
  IF source_type \notin DOMAIN ENTITY_TYPES THEN [graph |-> G, ret |-> FALSE]
  ELSE IF target_type \notin DOMAIN ENTITY_TYPES THEN [graph |-> G, ret |-> FALSE]
  ELSE IF relation_type \notin DOMAIN RELATION_TYPES THEN [graph |-> G, ret |-> FALSE]
  ELSE [graph |-> add_edge(add_node(add_node(G, source, source_type),
                                    target, target_type),
                           source, target, relation_type),
        ret   |-> TRUE]

(* add_relation leaving the target to add_edge, which creates a missing    *)
(* node without attributes (its 'type' then reads as the empty string).    *)
add_relation_bare_target(G, source, source_type, target, target_type, relation_type) ==
  IF source_type \notin DOMAIN ENTITY_TYPES THEN [graph |-> G, ret |-> FALSE]
  ELSE IF target_type \notin DOMAIN ENTITY_TYPES THEN [graph |-> G, ret |-> FALSE]
  ELSE IF relation_type \notin DOMAIN RELATION_TYPES THEN [graph |-> G, ret |-> FALSE]
  ELSE LET G1 == IF ~has_node(G, source) THEN add_node(G, source, source_type) ELSE G
           G2 == IF has_node(G1, target) THEN G1
                 ELSE [node |-> Append(G1.node, [name |-> target, type |-> "", label |-> ""]),
                       adj  |-> [m \in NodeNames(G1) \cup {target} |->
                                   IF m = target THEN <<>> ELSE G1.adj[m]]]
       IN  [graph |-> add_edge(G2, source, target, relation_type), ret |-> TRUE]

(* GraphKnowledgeBase.add_relation: the graph it leaves and what it        *)
(* returns.  networkx refuses None as a node (ValueError); the handler     *)
(* catches it and returns False with whatever was written before.          *)
add_relation(G, source, source_type, target, target_type, relation_type) ==
  IF source_type \notin DOMAIN ENTITY_TYPES THEN [graph |-> G, ret |-> FALSE]
  ELSE IF target_type \notin DOMAIN ENTITY_TYPES THEN [graph |-> G, ret |-> FALSE]
  ELSE IF relation_type \notin DOMAIN RELATION_TYPES THEN [graph |-> G, ret |-> FALSE]
  ELSE IF source = None THEN [graph |-> G, ret |-> FALSE]
  ELSE LET G1 == IF ~has_node(G, source) THEN add_node(G, source, source_type) ELSE G
       IN  IF target = None THEN [graph |-> G1, ret |-> FALSE]
           ELSE LET G2 == IF ~has_node(G1, target)
                            THEN add_node(G1, target, target_type) ELSE G1
                IN  [graph |-> add_edge(G2, source, target, relation_type),
                     ret   |-> TRUE]

(* get_entity_type answering with the default of dict.get for a name that *)
(* is not an entity.                                                       *)
get_entity_type_default(G, entity) ==
  IF has_node(G, entity) THEN G.node[NodeIndex(G, entity)].type ELSE ""

(* get_entity_type reading the 'label' attribute instead of 'type'. *)
get_entity_type_label(G, entity) ==
  IF has_node(G, entity) THEN G.node[NodeIndex(G, entity)].label ELSE None

(* GraphKnowledgeBase.get_entity_type *)
get_entity_type(G, entity) ==
  IF has_node(G, entity) THEN G.node[NodeIndex(G, entity)].type ELSE None

(* self.graph.successors(u): the keys of u's adjacency, in order *)
successors(G, u) == [i \in DOMAIN G.adj[u] |-> G.adj[u][i].to]

(* self.graph.get_edge_data(u, v).get('type', '') for an existing edge *)
edge_type(G, u, v) == G.adj[u][EdgeIndex(G, u, v)].type

has_edge(G, u, v) == has_node(G, u) /\ EdgeIndex(G, u, v) # 0

(* len(self.graph.edges) *)
NumRelations(G) ==
  Cardinality({<<u, i>> \in NodeNames(G) \X (1..Cardinality(NodeNames(G))) :
                 i \in DOMAIN G.adj[u]})

Edges(G) == {<<u, v>> \in NodeNames(G) \X NodeNames(G) : has_edge(G, u, v)}

---------------------------------------------------------------------------
(* GraphKnowledgeBase.query_related_entities: breadth-first search over    *)
(* outgoing edges with a list used as a FIFO queue of <<entity, hops>>.    *)

(* "if relation": None and the empty string select no filter. *)
Falsy(x) == x \in {None, ""}

(* The loop over the successors of current_entity with the filter applied  *)
(* to the reported tuples only: every successor is enqueued.               *)
visit_successors_no_pruning(G, current_entity, hops, relation, max_hops) ==
  LET out == G.adj[current_entity]
      passing == SelectSeq(out, LAMBDA e : Falsy(relation) \/ e.type = relation)
  IN  [result |-> [i \in DOMAIN passing |->
                     <<current_entity, passing[i].type, passing[i].to,
                       get_entity_type(G, passing[i].to)>>],
       queue  |-> IF hops < max_hops
                    THEN [i \in DOMAIN out |-> <<out[i].to, hops + 1>>]
                    ELSE <<>>]

(* The loop reporting an edge only where its neighbour is enqueued too,    *)
(* that is below max_hops.                                                 *)
visit_successors_below_max(G, current_entity, hops, relation, max_hops) ==
  LET passing == SelectSeq(G.adj[current_entity],
                           LAMBDA e : Falsy(relation) \/ e.type = relation)
      found   == IF hops < max_hops THEN passing ELSE <<>>
  IN  [result |-> [i \in DOMAIN found |->
                     <<current_entity, found[i].type, found[i].to,
                       get_entity_type(G, found[i].to)>>],
       queue  |-> [i \in DOMAIN found |-> <<found[i].to, hops + 1>>]]

(* The loop enqueueing a neighbour only while hops + 1 is below max_hops. *)
visit_successors_one_hop_short(G, current_entity, hops, relation, max_hops) ==
  LET passing == SelectSeq(G.adj[current_entity],
                           LAMBDA e : Falsy(relation) \/ e.type = relation)
  IN  [result |-> [i \in DOMAIN passing |->
                     <<current_entity, passing[i].type, passing[i].to,
                       get_entity_type(G, passing[i].to)>>],
       queue  |-> IF hops + 1 < max_hops
                    THEN [i \in DOMAIN passing |-> <<passing[i].to, hops + 1>>]
                    ELSE <<>>]

(* Lines 78-94, the loop over the successors of current_entity: what it    *)
(* appends to result and to queue.  An edge whose type is not the wanted   *)
(* relation is skipped ("continue") before either append.                  *)
visit_successors(G, current_entity, hops, relation, max_hops) ==
  LET passing == SelectSeq(G.adj[current_entity],
                           LAMBDA e : ~(~Falsy(relation) /\ e.type # relation))
  IN  [result |-> [i \in DOMAIN passing |->
                     <<current_entity, passing[i].type, passing[i].to,
                       get_entity_type(G, passing[i].to)>>],
       queue  |-> IF hops < max_hops
                    THEN [i \in DOMAIN passing |-> <<passing[i].to, hops + 1>>]
                    ELSE <<>>]

(* The while loop without the visited set: only hops > max_hops stops an   *)
(* entity from being expanded again.                                       *)
RECURSIVE bfs_no_visited(_, _, _, _, _, _)
bfs_no_visited(G, relation, max_hops, queue, visited, result) ==
  IF queue = <<>> THEN result
  ELSE LET current_entity == Head(queue)[1]
           hops == Head(queue)[2]
       IN  IF hops > max_hops
             THEN bfs_no_visited(G, relation, max_hops, Tail(queue), visited, result)
             ELSE LET step == visit_successors(G, current_entity, hops,
                                               relation, max_hops)
                  IN  bfs_no_visited(G, relation, max_hops, Tail(queue) \o step.queue,
                                     visited, result \o step.result)

(* Lines 69-94, the while loop. *)
RECURSIVE bfs(_, _, _, _, _, _)
bfs(G, relation, max_hops, queue, visited, result) ==
  IF queue = <<>> THEN result
  ELSE LET current_entity == Head(queue)[1]
           hops == Head(queue)[2]
       IN  IF current_entity \in visited \/ hops > max_hops
             THEN bfs(G, relation, max_hops, Tail(queue), visited, result)
             ELSE LET step == visit_successors(G, current_entity, hops,
                                               relation, max_hops)
                  IN  bfs(G, relation, max_hops, Tail(queue) \o step.queue,
                          visited \cup {current_entity}, result \o step.result)

query_related_entities(G, entity, relation, max_hops) ==
  IF ~has_node(G, entity) THEN <<>>
  ELSE bfs(G, relation, max_hops, <<<<entity, 0>>>>, {}, <<>>)

---------------------------------------------------------------------------
(* GraphKnowledgeBase.find_paths over nx.all_simple_paths.                 *)

RECURSIVE simple_paths_from(_, _, _, _)
RECURSIVE simple_paths_over(_, _, _, _, _)

(* The depth-first search of all_simple_paths below the node path `path`:  *)
(* the children of its last node are taken in adjacency order, a child on  *)
(* the path is skipped, the target is yielded and not searched beyond, any *)
(* other child is searched while the path has fewer than cutoff edges.     *)
simple_paths_over(G, path, children, target, cutoff) ==
  IF children = <<>> THEN <<>>
  ELSE LET child == Head(children)
           here  == IF child \in {path[i] : i \in DOMAIN path} THEN <<>>
                    ELSE IF child = target THEN <<Append(path, child)>>
                    ELSE IF Len(path) < cutoff
                      THEN simple_paths_from(G, Append(path, child), target, cutoff)
                    ELSE <<>>
       IN  here \o simple_paths_over(G, path, Tail(children), target, cutoff)

simple_paths_from(G, path, target, cutoff) ==
  IF Len(path) > cutoff THEN <<>>
  ELSE simple_paths_over(G, path, successors(G, path[Len(path)]), target, cutoff)

(* all_simple_paths without the cutoff. *)
all_simple_paths_no_cutoff(G, source, target, cutoff, singleton) ==
  IF source = target
    THEN IF singleton THEN <<<<source>>>> ELSE <<>>
    ELSE simple_paths_from(G, <<source>>, target, Len(G.node))

(* all_simple_paths stopping at the first path found. *)
all_simple_paths_first_only(G, source, target, cutoff, singleton) ==
  IF source = target
    THEN IF singleton THEN <<<<source>>>> ELSE <<>>
    ELSE LET found == simple_paths_from(G, <<source>>, target, cutoff)
         IN  IF found = <<>> THEN <<>> ELSE <<found[1]>>

(* nx.all_simple_paths(self.graph, source, target, cutoff) for two present *)
(* nodes, as the sequence of node paths it yields.  For source = target    *)
(* networkx yields nothing up to 3.1 and the one-node path <<source>>      *)
(* from 3.2 on; singleton says which of the two the installed library      *)
(* does (it matters for source = target only).                             *)
all_simple_paths(G, source, target, cutoff, singleton) ==
  IF source = target
    THEN IF singleton THEN <<<<source>>>> ELSE <<>>
    ELSE simple_paths_from(G, <<source>>, target, cutoff)

(* Lines 173-178: the triples (u, rel_type, v) of a node path. *)
relation_path(G, path) ==
  [i \in 1..(Len(path) - 1) |->
     <<path[i], edge_type(G, path[i], path[i + 1]), path[i + 1]>>]

(* find_paths keeping a path without triples. *)
find_paths_keep_empty(G, source, target, max_length, singleton) ==
  IF ~has_node(G, source) \/ ~has_node(G, target) THEN <<>>
  ELSE LET found == all_simple_paths(G, source, target, max_length, singleton)
       IN  [i \in DOMAIN found |-> relation_path(G, found[i])]

find_paths(G, source, target, max_length, singleton) ==
  IF ~has_node(G, source) \/ ~has_node(G, target) THEN <<>>
  ELSE LET found == all_simple_paths(G, source, target, max_length, singleton)
           all   == [i \in DOMAIN found |-> relation_path(G, found[i])]
       IN  SelectSeq(all, LAMBDA rp : rp # <<>>)

---------------------------------------------------------------------------
(* KnowledgeRetrievalAgent.retrieve_relevant_info (agents.py).  A tuple    *)
(* of query_related_entities is (src, rel, tgt, tgt_type).                 *)

SeqRange(q) == {q[i] : i \in DOMAIN q}

(* Lines 33-37: what the relations of one symptom add to possible_diseases. *)
(* The second test is an elif: it is reached only by a tuple that failed   *)
(* the first.                                                              *)
candidates_of(relations, symptom) ==
  LET first(x)  == x[4] = "Disease" /\ x[2] \in {"HAS_SYMPTOM", "CAUSES"}
      second(x) == x[1] = symptom /\ x[4] = "Disease" /\ x[2] \in {"CAUSES"}
  IN  {t[1] : t \in {x \in SeqRange(relations) : first(x)}}
      \cup {t[3] : t \in {x \in SeqRange(relations) : ~first(x) /\ second(x)}}

(* Line 30 for every symptom: the dictionary symptom_relations. *)
symptom_relations(G, symptoms) ==
  [s \in SeqRange(symptoms) |-> query_related_entities(G, s, None, 1)]

(* The loop giving up at the first symptom that is not an entity. *)
possible_diseases_until_absent(G, symptoms) ==
  LET known == {i \in DOMAIN symptoms :
                  \A j \in 1..i : has_node(G, symptoms[j])}
  IN  UNION {candidates_of(query_related_entities(G, symptoms[i], None, 1),
                           symptoms[i]) : i \in known}

(* Lines 26-37: the set possible_diseases. *)
possible_diseases(G, symptoms) ==
  UNION {candidates_of(query_related_entities(G, s, None, 1), s) :
           s \in SeqRange(symptoms)}

(* The targets of the tuples of a query whose target type is wanted        *)
(* (lines 43-47, 57-61, 64-68).                                            *)
targets_of_type(relations, wanted) ==
  LET kept == SelectSeq(relations, LAMBDA t : t[4] = wanted)
  IN  [i \in DOMAIN kept |-> kept[i][3]]

(* Lines 50-54: the sources of the tuples whose target is a Disease and    *)
(* whose source is named "Treatment" or "Medication".                      *)
treatments_of(relations) ==
  LET kept == SelectSeq(relations, LAMBDA t :
                t[4] = "Disease" /\ t[1] \in {"Treatment", "Medication"})
  IN  [i \in DOMAIN kept |-> kept[i][1]]

(* Lines 41-75: the bundle of one disease; max_hops keeps its default 1.   *)
disease_bundle(G, disease) ==
  [symptoms            |-> targets_of_type(
       query_related_entities(G, disease, "HAS_SYMPTOM", 1), "Symptom"),
   treatments          |-> treatments_of(
       query_related_entities(G, disease, "TREATS", 1)),
   examinations        |-> targets_of_type(
       query_related_entities(G, disease, "REQUIRES", 1), "Examination"),
   affected_body_parts |-> targets_of_type(
       query_related_entities(G, disease, "AFFECTS", 1), "BodyPart")]

(* One entry of symptom_connections for positions i < j. *)
connection(G, symptoms, i, j, singleton) ==
  [symptom1 |-> symptoms[i], symptom2 |-> symptoms[j],
   paths |-> find_paths(G, symptoms[i], symptoms[j], 2, singleton)]

(* The pairs of positions i < j in the order of the two loops. *)
RECURSIVE position_pairs(_, _, _)
position_pairs(n, i, j) ==
  IF i > n THEN <<>>
  ELSE IF j > n THEN position_pairs(n, i + 1, i + 2)
  ELSE <<<<i, j>>>> \o position_pairs(n, i, j + 1)

(* The loops appending an entry for every pair, with or without paths. *)
symptom_connections_keep_empty(G, symptoms, singleton) ==
  LET pairs == position_pairs(Len(symptoms), 1, 2)
  IN  [k \in DOMAIN pairs |->
         connection(G, symptoms, pairs[k][1], pairs[k][2], singleton)]

(* Lines 78-87: symptom_connections. *)
symptom_connections(G, symptoms, singleton) ==
  LET pairs == position_pairs(Len(symptoms), 1, 2)
      all   == [k \in DOMAIN pairs |->
                  connection(G, symptoms, pairs[k][1], pairs[k][2], singleton)]
  IN  SelectSeq(all, LAMBDA c : c.paths # <<>>)

(* Lines 19-100: the result dictionary without retrieval_time.             *)
(* possible_diseases is a Python set; the order of list(possible_diseases) *)
(* is not determined by the program and the result is kept as the set.     *)
retrieve_relevant_info(G, symptoms, singleton) ==
  LET found == possible_diseases(G, symptoms)
  IN  [symptoms            |-> symptoms,
       possible_diseases   |-> found,
       disease_info        |-> [d \in found |-> disease_bundle(G, d)],
       symptom_relations   |-> symptom_relations(G, symptoms),
       symptom_connections |-> symptom_connections(G, symptoms, singleton)]

(* The chains of one disease and one symptom when only the first path     *)
(* found is kept.                                                          *)
chains_of_first_path(G, disease, symptom, singleton) ==
  LET found == find_paths(G, disease, symptom, 2, singleton)
      paths == SubSeq(found, 1, IF Len(found) > 1 THEN 1 ELSE Len(found))
  IN  [k \in DOMAIN paths |->
         [i \in 1..(Len(paths[k]) + 1) |->
            IF i <= Len(paths[k])
              THEN <<paths[k][i][1], paths[k][i][2]>>
              ELSE <<symptom>>]]

(* DiagnosisAgent.analyze_risk_level, lines 144-150: a chain is the        *)
(* pairs (entity, relation) of a path followed by the symptom; the chains  *)
(* of one disease and one symptom.                                         *)
chains_of(G, disease, symptom, singleton) ==
  LET paths == find_paths(G, disease, symptom, 2, singleton)
  IN  [k \in DOMAIN paths |->
         [i \in 1..(Len(paths[k]) + 1) |->
            IF i <= Len(paths[k])
              THEN <<paths[k][i][1], paths[k][i][2]>>
              ELSE <<symptom>>]]

RECURSIVE chains_over(_, _, _, _, _)
chains_over(G, diseases, symptoms, i, singleton) ==
  IF diseases = <<>> THEN <<>>
  ELSE IF i > Len(symptoms)
    THEN chains_over(G, Tail(diseases), symptoms, 1, singleton)
  ELSE chains_of(G, Head(diseases), symptoms[i], singleton)
       \o chains_over(G, diseases, symptoms, i + 1, singleton)

(* relation_chains for the list of diseases of medical_info. *)
relation_chains(G, diseases, symptoms, singleton) ==
  chains_over(G, diseases, symptoms, 1, singleton)

---------------------------------------------------------------------------
(* Ingestion: ErnieClient.extract_relations filters the items of the list  *)
(* the model answered with, initialize_medical_knowledge adds what is left *)
(* (init_knowledge_base.py, lines 88-111).  An item is a JSON value: an    *)
(* object is a record of the keys it has, anything else is NotADict.       *)

NotADict == [not_a_dict |-> TRUE]

RelationKeys == {"source", "source_type", "target", "target_type", "relation"}

(* Lines 260-265 for one item: all keys are there and the three types are  *)
(* in the schema.                                                          *)
passes_filter(rel) ==
  /\ RelationKeys \subseteq DOMAIN rel
  /\ rel.source_type \in DOMAIN ENTITY_TYPES
  /\ rel.target_type \in DOMAIN ENTITY_TYPES
  /\ rel.relation \in DOMAIN RELATION_TYPES

(* Lines 258-269: "k in rel" raises TypeError for an item that is a        *)
(* number, the handler of line 267 answers with the empty list.            *)
extract_relations(items) ==
  IF \E i \in DOMAIN items : items[i] = NotADict THEN <<>>
  ELSE SelectSeq(items, passes_filter)

(* Lines 99-109: add_relation for every relation, in order. *)
RECURSIVE add_relations(_, _)
add_relations(G, relations) ==
  IF relations = <<>> THEN G
  ELSE LET rel == Head(relations)
       IN  add_relations(add_relation(G, rel.source, rel.source_type, rel.target,
                                      rel.target_type, rel.relation).graph,
                         Tail(relations))

(* Lines 92-109 for one text. *)
ingest(G, items) == add_relations(G, extract_relations(items))

(* self.graph.edges(data=True): the edges <<u, v, type>> of the nodes from *)
(* position i on, in dictionary order.                                     *)
RECURSIVE edges_data(_, _)
edges_data(G, i) ==
  IF i > Len(G.node) THEN <<>>
  ELSE LET u == G.node[i].name
       IN  [j \in DOMAIN G.adj[u] |-> <<u, G.adj[u][j].to, G.adj[u][j].type>>]
           \o edges_data(G, i + 1)

(* list(self.graph.nodes)[:max_nodes], line 115 *)
visualize_nodes(G, max_nodes) ==
  SubSeq([i \in DOMAIN G.node |-> G.node[i].name], 1,
         IF max_nodes < Len(G.node) THEN max_nodes ELSE Len(G.node))

visualize_keeps_either_end(nodes, e) == e[1] \in SeqRange(nodes) \/ e[2] \in SeqRange(nodes)

(* line 137: if u in nodes and v in nodes *)
visualize_keeps(nodes, e) == e[1] \in SeqRange(nodes) /\ e[2] \in SeqRange(nodes)

(* GraphKnowledgeBase.visualize, lines 115-145: the nodes and the edges    *)
(* <<u, v, label>> handed to the network that is drawn.                    *)
visualize(G, max_nodes) ==
  LET nodes == visualize_nodes(G, max_nodes)
      shown == SelectSeq(edges_data(G, 1), LAMBDA e : visualize_keeps(nodes, e))
  IN  [nodes |-> nodes,
       edges |-> [i \in DOMAIN shown |->
                   <<shown[i][1], shown[i][2],
                     IF shown[i][3] \in DOMAIN relation_type_descriptions
                       THEN relation_type_descriptions[shown[i][3]] ELSE shown[i][3]>>]]

---------------------------------------------------------------------------
(* save_to_file and load_from_file: the graph object pickled to a file.    *)

FileNames == {"medical_kb.pkl"}

(* What a file name can hold: nothing (os.path.exists is False), a file    *)
(* that open() refuses, bytes that pickle.load rejects (garbage or a       *)
(* truncated dump), or a complete pickle stream.                           *)
NoFile == [kind |-> "missing"]

Unreadable == [kind |-> "unreadable"]

Corrupt == [kind |-> "corrupt"]

(* saved[f] for a file that no save_to_file of the program wrote. *)
NoSnapshot == [origin |-> "none"]

(* A pickled object that is not a graph, here an empty list. *)
PickledList == [kind |-> "pickle", cls |-> "list", items |-> <<>>]

(* The edge records of the nodes from position i on, in dictionary order. *)
RECURSIVE adjacency_items(_, _)
adjacency_items(G, i) ==
  IF i > Len(G.node) THEN <<>>
  ELSE LET u == G.node[i].name
       IN  [j \in DOMAIN G.adj[u] |->
              [from |-> u, to |-> G.adj[u][j].to,
               type |-> G.adj[u][j].type, label |-> G.adj[u][j].label]]
           \o adjacency_items(G, i + 1)

IsDiGraph(obj) == DOMAIN obj = {"node", "adj"}

(* pickle.dump(self.graph, f): the stream of a DiGraph lists the node      *)
(* dictionary and then the adjacency items; any other object is written    *)
(* as what it is.                                                          *)
pickle_dump(obj) ==
  IF IsDiGraph(obj)
    THEN [kind |-> "pickle", cls |-> "DiGraph",
          nodes |-> obj.node, edges |-> adjacency_items(obj, 1)]
    ELSE [kind |-> "pickle", cls |-> obj.cls, items |-> obj.items]

(* pickle.load(f) of a complete stream: the object is built again, the     *)
(* adjacency of a DiGraph from the items of each node.                     *)
pickle_load(content) ==
  IF content.cls = "DiGraph"
    THEN [node |-> content.nodes,
          adj  |-> [n \in {content.nodes[i].name : i \in DOMAIN content.nodes} |->
                      LET mine == SelectSeq(content.edges, LAMBDA e : e.from = n)
                      IN  [j \in DOMAIN mine |->
                             [to |-> mine[j].to, type |-> mine[j].type,
                              label |-> mine[j].label]]]]
    ELSE [cls |-> content.cls, items |-> content.items]

(* save_to_file: what the file holds afterwards and what is returned.      *)
(* open(filename, 'wb') can fail and leave the file alone; once it has     *)
(* succeeded the file is truncated, and a dump that fails part-way leaves  *)
(* bytes that do not load.                                                 *)
save_to_file(obj, content, outcome) ==
  IF outcome = "open fails" THEN [file |-> content, ret |-> FALSE]
  ELSE IF outcome = "write fails" THEN [file |-> Corrupt, ret |-> FALSE]
  ELSE [file |-> pickle_dump(obj), ret |-> TRUE]

SaveOutcomes == {"written", "open fails", "write fails"}

(* load_from_file adding what it loads to what the store holds. *)
load_from_file_compose(obj, content) ==
  IF content.kind # "pickle" THEN [graph |-> obj, ret |-> FALSE]
  ELSE LET loaded == pickle_load(content)
       IN  IF ~IsDiGraph(loaded) THEN [graph |-> loaded, ret |-> FALSE]
           ELSE IF ~IsDiGraph(obj) THEN [graph |-> loaded, ret |-> TRUE]
           ELSE LET fresh == SelectSeq(loaded.node, LAMBDA n : ~has_node(obj, n.name))
                    names == NodeNames(obj) \cup NodeNames(loaded)
                    mine(n)   == IF has_node(obj, n) THEN obj.adj[n] ELSE <<>>
                    theirs(n) == IF has_node(loaded, n) THEN loaded.adj[n] ELSE <<>>
                IN  [graph |->
                       [node |-> obj.node \o fresh,
                        adj  |-> [n \in names |->
                                    mine(n) \o SelectSeq(theirs(n), LAMBDA e :
                                      \A i \in DOMAIN mine(n) : mine(n)[i].to # e.to)]],
                     ret |-> TRUE]

(* load_from_file: the object self.graph is bound to afterwards and what   *)
(* is returned.  A missing file returns False (line 210); open or          *)
(* pickle.load raising leaves self.graph alone; a loaded object is bound   *)
(* to self.graph (line 213) before the message of line 214 reads its       *)
(* .nodes and .edges, which an object that is not a graph does not have.   *)
load_from_file(obj, content) ==
  IF content.kind = "missing" THEN [graph |-> obj, ret |-> FALSE]
  ELSE IF content.kind = "unreadable" THEN [graph |-> obj, ret |-> FALSE]
  ELSE IF content.kind = "corrupt" THEN [graph |-> obj, ret |-> FALSE]
  ELSE LET loaded == pickle_load(content)
       IN  IF IsDiGraph(loaded) THEN [graph |-> loaded, ret |-> TRUE]
           ELSE [graph |-> loaded, ret |-> FALSE]

---------------------------------------------------------------------------
(* Bounds and the inputs of the store specification.                       *)

MaxRelations == 3

Names == {"Flu", "Fever"}

(* "Virus" and "LINKS" are not in the schema. *)
EntityTypeInputs == {"Disease", "Symptom", "Virus"}

RelationTypeInputs == {"HAS_SYMPTOM", "CAUSES", "LINKS"}

Init ==
  /\ graph = EmptyGraph
  /\ pre = EmptyGraph
  /\ call = [op |-> "init"]
  /\ ret = None
  /\ pc = "idle"
  /\ files = [f \in FileNames |-> NoFile]
  /\ saved = [f \in FileNames |-> NoSnapshot]

(* One call of add_relation with the given arguments. *)
AddRelationCall(s, st, t, tt, r) ==
  LET res == add_relation(graph, s, st, t, tt, r)
  IN  /\ pc = "idle"
      /\ NumRelations(graph) < MaxRelations
      /\ pre' = graph
      /\ graph' = res.graph
      /\ ret' = res.ret
      /\ call' = [op |-> "add_relation", source |-> s, source_type |-> st,
                  target |-> t, target_type |-> tt, relation_type |-> r]
      /\ pc' = "returned"
      /\ UNCHANGED <<files, saved>>

AddRelation ==
  \E s \in Names, t \in Names :
    \E st \in EntityTypeInputs, tt \in EntityTypeInputs, r \in RelationTypeInputs :
      AddRelationCall(s, st, t, tt, r)

GetEntityType ==
  \E e \in Names :
    /\ pc = "idle"
    /\ pre' = graph
    /\ ret' = get_entity_type(graph, e)
    /\ call' = [op |-> "get_entity_type", entity |-> e]
    /\ pc' = "returned"
    /\ UNCHANGED <<graph, files, saved>>

(* The caller takes the result; the store is ready for the next call. *)
Return ==
  /\ pc = "returned"
  /\ pc' = "idle"
  /\ pre' = graph
  /\ call' = [op |-> "init"]
  /\ ret' = None
  /\ UNCHANGED <<graph, files, saved>>

Next == AddRelation \/ GetEntityType \/ Return

Spec == Init /\ [][Next]_vars

---------------------------------------------------------------------------
(* The traversal specifications: a knowledge base built from the relations *)
(* of the documented scenarios, in any order, and queried for related      *)
(* entities (SpecQuery) or for paths (SpecPaths).                          *)

MaxHops == 2

MaxLength == 2

ScenarioRelations ==
  { <<"Flu", "Disease", "Fever", "Symptom", "HAS_SYMPTOM">>,
    <<"Flu", "Disease", "Fatigue", "Symptom", "HAS_SYMPTOM">>,
    <<"Flu", "Disease", "BloodTest", "Examination", "REQUIRES">>,
    <<"Pneumonia", "Disease", "Lungs", "BodyPart", "AFFECTS">>,
    <<"Pneumonia", "Disease", "Cough", "Symptom", "HAS_SYMPTOM">>,
    <<"Cough", "Symptom", "Fatigue", "Symptom", "ACCOMPANIES">>,
    <<"Fever", "Symptom", "Fatigue", "Symptom", "ACCOMPANIES">>,
    <<"Cough", "Symptom", "Cough", "Symptom", "ACCOMPANIES">> }

(* A name no relation mentions. *)
AbsentName == "Rash"

QueryNames == NodeNames(graph) \cup {AbsentName}

RelationFilters == {None, "HAS_SYMPTOM", "ACCOMPANIES"}

AddScenarioRelation ==
  \E t \in ScenarioRelations : AddRelationCall(t[1], t[2], t[3], t[4], t[5])

QueryRelated ==
  \E e \in QueryNames, f \in RelationFilters, k \in 0..MaxHops :
    /\ pc = "idle"
    /\ pre' = graph
    /\ ret' = query_related_entities(graph, e, f, k)
    /\ call' = [op |-> "query_related_entities", entity |-> e,
                relation |-> f, max_hops |-> k]
    /\ pc' = "returned"
    /\ UNCHANGED <<graph, files, saved>>

FindPaths ==
  \E a \in QueryNames, b \in QueryNames, k \in 0..MaxLength :
    \E singleton \in (IF a = b THEN BOOLEAN ELSE {FALSE}) :
      /\ pc = "idle"
      /\ pre' = graph
      /\ ret' = find_paths(graph, a, b, k, singleton)
      /\ call' = [op |-> "find_paths", source |-> a, target |-> b,
                  max_length |-> k]
      /\ pc' = "returned"
      /\ UNCHANGED <<graph, files, saved>>

NextQuery == AddScenarioRelation \/ QueryRelated \/ Return

SpecQuery == Init /\ [][NextQuery]_vars

NextPaths == AddScenarioRelation \/ FindPaths \/ Return

SpecPaths == Init /\ [][NextPaths]_vars

---------------------------------------------------------------------------
(* The retrieval specification: a knowledge base built from extracted      *)
(* relations, looked up, queried, and aggregated for lists of reported     *)
(* symptoms as DiagnosisAgent.process_symptoms does: retrieve_relevant_info *)
(* and then the relation chains of analyze_risk_level.                     *)

MaxSymptoms == 2

KnowledgeRelations ==
  { <<"Flu", "Disease", "Fever", "Symptom", "HAS_SYMPTOM">>,
    <<"Flu", "Disease", "Cough", "Symptom", "HAS_SYMPTOM">>,
    <<"Fever", "Symptom", "Flu", "Disease", "CAUSES">>,
    <<"Flu", "Disease", "Pneumonia", "Disease", "HAS_SYMPTOM">>,
    <<"Pneumonia", "Disease", "Cough", "Symptom", "HAS_SYMPTOM">>,
    <<"Flu", "Disease", "Oseltamivir", "Medication", "TREATS">>,
    <<"Fever", "Symptom", "Cough", "Symptom", "ACCOMPANIES">> }

(* "Rash" is in no relation. *)
SymptomInputs == {"Fever", "Cough", AbsentName}

SymptomLists == UNION {[1..n -> SymptomInputs] : n \in 0..MaxSymptoms}

(* The lists a set can be turned into by list(). *)
ListsOf(S) ==
  {q \in [1..Cardinality(S) -> S] : \A i, j \in 1..Cardinality(S) : q[i] = q[j] => i = j}

AddKnowledgeRelation ==
  \E t \in KnowledgeRelations : AddRelationCall(t[1], t[2], t[3], t[4], t[5])

(* The retrieval entering every reported symptom it does not know into    *)
(* the graph.                                                              *)
RetrieveRelevantInfo_registering ==
  \E symptoms \in SymptomLists, singleton \in BOOLEAN :
    LET unknown == SelectSeq(symptoms, LAMBDA x : ~has_node(graph, x))
    IN  /\ pc = "idle"
        /\ pre' = graph
        /\ ret' = retrieve_relevant_info(graph, symptoms, singleton)
        /\ call' = [op |-> "retrieve_relevant_info", symptoms |-> symptoms]
        /\ pc' = "returned"
        /\ graph' = IF unknown = <<>> THEN graph
                    ELSE add_node(graph, unknown[1], "Symptom")
        /\ UNCHANGED <<files, saved>>

RetrieveRelevantInfo ==
  \E symptoms \in SymptomLists, singleton \in BOOLEAN :
    /\ pc = "idle"
    /\ pre' = graph
    /\ ret' = retrieve_relevant_info(graph, symptoms, singleton)
    /\ call' = [op |-> "retrieve_relevant_info", symptoms |-> symptoms]
    /\ pc' = "returned"
    /\ UNCHANGED <<graph, files, saved>>

(* retrieve_relevant_info(None): "for symptom in symptoms" (line 29)       *)
(* raises TypeError; nothing in retrieve_relevant_info or                  *)
(* process_symptoms catches it and no result is returned.                  *)
RetrieveRelevantInfoOfNone ==
  /\ pc = "idle"
  /\ pre' = graph
  /\ ret' = "TypeError"
  /\ call' = [op |-> "retrieve_relevant_info", symptoms |-> None]
  /\ pc' = "raised"
  /\ UNCHANGED <<graph, files, saved>>

(* The exception has reached the caller of the agent; the store is ready   *)
(* for the next call.                                                      *)
Recover ==
  /\ pc = "raised"
  /\ pc' = "idle"
  /\ pre' = graph
  /\ call' = [op |-> "init"]
  /\ ret' = None
  /\ UNCHANGED <<graph, files, saved>>

(* process_symptoms hands the symptoms and the result of the retrieval to  *)
(* analyze_risk_level.                                                     *)
AnalyzeRiskLevel ==
  /\ pc = "returned"
  /\ call.op = "retrieve_relevant_info"
  /\ \E diseases \in ListsOf(ret.possible_diseases), singleton \in BOOLEAN :
       /\ ret' = relation_chains(graph, diseases, call.symptoms, singleton)
       /\ call' = [op |-> "analyze_risk_level", symptoms |-> call.symptoms,
                   possible_diseases |-> diseases]
  /\ pre' = graph
  /\ pc' = "returned"
  /\ UNCHANGED <<graph, files, saved>>

NextRetrieval ==
  \/ AddKnowledgeRelation
  \/ GetEntityType
  \/ QueryRelated
  \/ FindPaths
  \/ RetrieveRelevantInfo
  \/ RetrieveRelevantInfoOfNone
  \/ AnalyzeRiskLevel
  \/ Return
  \/ Recover

SpecRetrieval == Init /\ [][NextRetrieval]_vars

---------------------------------------------------------------------------
(* The snapshot specification: stores are built, saved to the knowledge    *)
(* file and loaded from it, as initialize_medical_knowledge does, while    *)
(* the file can also be removed or overwritten from outside.               *)

SnapshotRelations ==
  { <<"Flu", "Disease", "Fever", "Symptom", "HAS_SYMPTOM">>,
    <<"Flu", "Disease", "Cough", "Symptom", "HAS_SYMPTOM">>,
    <<"Fever", "Symptom", "Cough", "Symptom", "ACCOMPANIES">>,
    <<"Fever", "Symptom", "Flu", "Disease", "CAUSES">> }

(* add_relation on the store.  When self.graph is not a graph (see         *)
(* load_from_file) the types are accepted, "source not in                  *)
(* self.graph.nodes" raises and the handler of line 56 returns False.      *)
AddSnapshotRelation ==
  \E t \in SnapshotRelations :
    IF IsDiGraph(graph)
      THEN AddRelationCall(t[1], t[2], t[3], t[4], t[5])
      ELSE /\ pc = "idle"
           /\ pre' = graph
           /\ ret' = FALSE
           /\ call' = [op |-> "add_relation", source |-> t[1], source_type |-> t[2],
                       target |-> t[3], target_type |-> t[4], relation_type |-> t[5]]
           /\ pc' = "returned"
           /\ UNCHANGED <<graph, files, saved>>

(* graph_kb = GraphKnowledgeBase(): the program goes on with a new store. *)
NewStore ==
  /\ pc = "idle"
  /\ graph # EmptyGraph
  /\ graph' = EmptyGraph
  /\ pre' = EmptyGraph
  /\ UNCHANGED <<call, ret, pc, files, saved>>

SaveSnapshot ==
  \E f \in FileNames, outcome \in SaveOutcomes :
    LET res == save_to_file(graph, files[f], outcome)
    IN  /\ pc = "idle"
        /\ pre' = graph
        /\ files' = [files EXCEPT ![f] = res.file]
        /\ saved' = [saved EXCEPT ![f] =
                       IF outcome = "written" THEN graph
                       ELSE IF outcome = "write fails" THEN NoSnapshot ELSE @]
        /\ ret' = res.ret
        /\ call' = [op |-> "save_to_file", filename |-> f]
        /\ pc' = "returned"
        /\ UNCHANGED graph

LoadSnapshot ==
  \E f \in FileNames :
    LET res == load_from_file(graph, files[f])
    IN  /\ pc = "idle"
        /\ pre' = graph
        /\ graph' = res.graph
        /\ ret' = res.ret
        /\ call' = [op |-> "load_from_file", filename |-> f]
        /\ pc' = "returned"
        /\ UNCHANGED <<files, saved>>

(* The file is removed, made unreadable or overwritten by something else. *)
OutsideWrite ==
  \E f \in FileNames, content \in {NoFile, Unreadable, Corrupt, PickledList} :
    /\ pc = "idle"
    /\ files[f] # content
    /\ files' = [files EXCEPT ![f] = content]
    /\ saved' = [saved EXCEPT ![f] = NoSnapshot]
    /\ UNCHANGED <<graph, pre, call, ret, pc>>

NextSnapshot ==
  \/ AddSnapshotRelation
  \/ NewStore
  \/ SaveSnapshot
  \/ LoadSnapshot
  \/ OutsideWrite
  \/ Return

SpecSnapshot == Init /\ [][NextSnapshot]_vars

---------------------------------------------------------------------------
(* Ingestion scenario: texts whose extracted lists hold well-formed        *)
(* relations, a relation of a type outside the schema, an object without   *)
(* its "relation" key, a relation whose target is null and an item that is *)
(* a number; the store is drawn with a node cap.                           *)

MaxBatch == 2

MaxNodeCap == 3

ExtractedItems ==
  { [source |-> "Flu", source_type |-> "Disease", target |-> "Fever",
     target_type |-> "Symptom", relation |-> "HAS_SYMPTOM"],
    [source |-> "Fever", source_type |-> "Symptom", target |-> "Cough",
     target_type |-> "Symptom", relation |-> "ACCOMPANIES"],
    [source |-> "Flu", source_type |-> "Virus", target |-> "Cough",
     target_type |-> "Symptom", relation |-> "HAS_SYMPTOM"],
    [source |-> "Flu", source_type |-> "Disease", target |-> "Cough",
     target_type |-> "Symptom"],
    [source |-> "Cold", source_type |-> "Disease", target |-> None,
     target_type |-> "Symptom", relation |-> "HAS_SYMPTOM"],
    NotADict }

Batches == UNION {[1..n -> ExtractedItems] : n \in 0..MaxBatch}

(* init_knowledge_base.py, lines 92-109: one text is processed. *)
IngestText ==
  \E items \in Batches :
    /\ pc = "idle"
    /\ NumRelations(graph) < MaxRelations
    /\ pre' = graph
    /\ graph' = ingest(graph, items)
    /\ ret' = None
    /\ call' = [op |-> "ingest", items |-> items]
    /\ pc' = "returned"
    /\ UNCHANGED <<files, saved>>

(* init_knowledge_base.py, lines 101-107: add_relation on one relation     *)
(* that extract_relations let through.                                     *)
AddExtractedRelation ==
  \E rel \in {it \in ExtractedItems : passes_filter(it)} :
    AddRelationCall(rel.source, rel.source_type, rel.target, rel.target_type,
                    rel.relation)

Visualize ==
  \E max_nodes \in 0..MaxNodeCap :
    /\ pc = "idle"
    /\ pre' = graph
    /\ ret' = visualize(graph, max_nodes)
    /\ call' = [op |-> "visualize", max_nodes |-> max_nodes]
    /\ pc' = "returned"
    /\ UNCHANGED <<graph, files, saved>>

NextIngest ==
  \/ IngestText
  \/ AddExtractedRelation
  \/ Visualize
  \/ Return

SpecIngest == Init /\ [][NextIngest]_vars

---------------------------------------------------------------------------
(* Interleaving: two callers of add_relation and a reader share the store; *)
(* a step is one write of add_relation or one whole read.  pc, call and    *)
(* ret hold one entry per caller, call[w].step is the position of w in     *)
(* write_order.                                                            *)

Writers == {"w1", "w2"}

Readers == {"r1"}

InterleavedRelations ==
  { <<"Flu", "Disease", "Fever", "Symptom", "HAS_SYMPTOM">>,
    <<"Fever", "Symptom", "Flu", "Disease", "CAUSES">>,
    <<"Flu", "Disease", "Cough", "Symptom", "HAS_SYMPTOM">>,
    <<"Cold", "Disease", None, "Symptom", "HAS_SYMPTOM">>,
    <<"Flu", "Virus", "Cough", "Symptom", "HAS_SYMPTOM">> }

InitInterleaved ==
  /\ graph = EmptyGraph
  /\ pre = EmptyGraph
  /\ call = [p \in Writers \cup Readers |-> [op |-> "init"]]
  /\ ret = [p \in Writers \cup Readers |-> None]
  /\ pc = [p \in Writers \cup Readers |-> "idle"]
  /\ files = [f \in FileNames |-> NoFile]
  /\ saved = [f \in FileNames |-> NoSnapshot]

(* Lines 21-29: the call is entered and the three types are checked. *)
BeginAdd(w) ==
  \E t \in InterleavedRelations :
    /\ pc[w] = "idle"
    /\ NumRelations(graph) < MaxRelations
    /\ call' = [call EXCEPT ![w] =
                  [op |-> "add_relation", source |-> t[1], source_type |-> t[2],
                   target |-> t[3], target_type |-> t[4], relation_type |-> t[5],
                   step |-> 1]]
    /\ IF /\ t[2] \in DOMAIN ENTITY_TYPES
          /\ t[4] \in DOMAIN ENTITY_TYPES
          /\ t[5] \in DOMAIN RELATION_TYPES
         THEN pc' = [pc EXCEPT ![w] = "writing"] /\ UNCHANGED ret
         ELSE pc' = [pc EXCEPT ![w] = "returned"] /\ ret' = [ret EXCEPT ![w] = FALSE]
    /\ UNCHANGED <<graph, pre, files, saved>>

(* The write of w leaves the graph G; after the last write of write_order  *)
(* the call returns True.                                                  *)
Written(w, G) ==
  /\ graph' = G
  /\ IF call[w].step = Len(write_order)
       THEN /\ pc' = [pc EXCEPT ![w] = "returned"]
            /\ ret' = [ret EXCEPT ![w] = TRUE]
            /\ UNCHANGED call
       ELSE /\ call' = [call EXCEPT ![w].step = @ + 1]
            /\ UNCHANGED <<pc, ret>>
  /\ UNCHANGED <<pre, files, saved>>

(* Lines 56-58: the write of w raised, the call returns False. *)
Raised(w) ==
  /\ pc' = [pc EXCEPT ![w] = "returned"]
  /\ ret' = [ret EXCEPT ![w] = FALSE]
  /\ UNCHANGED <<graph, pre, call, files, saved>>

(* Lines 33-38. *)
WriteSource(w) ==
  /\ pc[w] = "writing"
  /\ write_order[call[w].step] = "source"
  /\ IF call[w].source = None THEN Raised(w)
     ELSE Written(w, IF ~has_node(graph, call[w].source)
                       THEN add_node(graph, call[w].source, call[w].source_type)
                       ELSE graph)

(* Lines 41-46. *)
WriteTarget(w) ==
  /\ pc[w] = "writing"
  /\ write_order[call[w].step] = "target"
  /\ IF call[w].target = None THEN Raised(w)
     ELSE Written(w, IF ~has_node(graph, call[w].target)
                       THEN add_node(graph, call[w].target, call[w].target_type)
                       ELSE graph)

(* Lines 49-54. *)
WriteRelation(w) ==
  /\ pc[w] = "writing"
  /\ write_order[call[w].step] = "relation"
  /\ IF call[w].source = None \/ call[w].target = None THEN Raised(w)
     ELSE Written(w, nx_add_edge(graph, call[w].source, call[w].target,
                                 call[w].relation_type))

(* A reader runs query_related_entities between two writes. *)
ReadRelated(r) ==
  \E e \in NodeNames(graph) :
    /\ pc[r] = "idle"
    /\ ret' = [ret EXCEPT ![r] = query_related_entities(graph, e, None, 1)]
    /\ call' = [call EXCEPT ![r] = [op |-> "query_related_entities", entity |-> e,
                                     relation |-> None, max_hops |-> 1]]
    /\ pc' = [pc EXCEPT ![r] = "returned"]
    /\ UNCHANGED <<graph, pre, files, saved>>

(* The caller p has its answer; its frame is gone. *)
ReturnTo(p) ==
  /\ pc[p] = "returned"
  /\ pc' = [pc EXCEPT ![p] = "idle"]
  /\ call' = [call EXCEPT ![p] = [op |-> "init"]]
  /\ ret' = [ret EXCEPT ![p] = None]
  /\ UNCHANGED <<graph, pre, files, saved>>

NextInterleaved ==
  \/ \E w \in Writers : BeginAdd(w)
  \/ \E w \in Writers : WriteSource(w)
  \/ \E w \in Writers : WriteTarget(w)
  \/ \E w \in Writers : WriteRelation(w)
  \/ \E r \in Readers : ReadRelated(r)
  \/ \E p \in Writers \cup Readers : ReturnTo(p)

SpecInterleaved == InitInterleaved /\ [][NextInterleaved]_vars

---------------------------------------------------------------------------
(* Properties of the graph store (specification Spec).                     *)
(* pre is the graph at the entry of the call recorded in call and ret.     *)

AddReturned == pc = "returned" /\ call.op = "add_relation"

ValidTypes(c) ==
  /\ c.source_type \in DOMAIN ENTITY_TYPES
  /\ c.target_type \in DOMAIN ENTITY_TYPES
  /\ c.relation_type \in DOMAIN RELATION_TYPES

node_label(G, n) == G.node[NodeIndex(G, n)].label

(* C1: add_relation with a source type or target type outside              *)
(* ENTITY_TYPES, or a relation type outside RELATION_TYPES, returns False  *)
(* and leaves entities, entity types and relations exactly as they were;   *)
(* it never creates the source entity while rejecting the target type or   *)
(* the relation type.                                                      *)
C1_InvalidTypesNoMutation ==
  (AddReturned /\ ~ValidTypes(call)) => (ret = FALSE /\ graph = pre)

(* a new source name with a valid type, rejected for its target type, while *)
(* the graph already holds something                                       *)
C1_Witness ==
  /\ AddReturned
  /\ call.source_type \in DOMAIN ENTITY_TYPES
  /\ call.target_type \notin DOMAIN ENTITY_TYPES
  /\ ~has_node(pre, call.source)
  /\ pre.node # <<>>
  /\ ret = FALSE

(* C2: once an entity name exists, its stored type and the label derived   *)
(* from it never change, whatever add_relation is called with later.       *)
C2_TypeFixedAtCreation ==
  [][\A n \in NodeNames(graph) :
       /\ has_node(graph', n)
       /\ get_entity_type(graph', n) = get_entity_type(graph, n)
       /\ node_label(graph', n) = node_label(graph, n)]_vars

(* a successful call that names an existing entity, as source and as       *)
(* target, with a valid type other than the stored one                     *)
C2_Witness ==
  /\ AddReturned /\ ret = TRUE
  /\ has_node(pre, call.source) /\ has_node(pre, call.target)
  /\ call.source # call.target
  /\ get_entity_type(pre, call.source) # call.source_type
  /\ get_entity_type(pre, call.target) # call.target_type

(* C3 as stated: after add_relation with valid types, get_entity_type of   *)
(* the source is the supplied source type and get_entity_type of the       *)
(* target is the supplied target type.                                     *)
C3_Original ==
  (AddReturned /\ ValidTypes(call)) =>
    /\ get_entity_type(graph, call.source) = call.source_type
    /\ get_entity_type(graph, call.target) = call.target_type

(* C3 amended: after add_relation with valid types, get_entity_type of the *)
(* source is the supplied source type when the source was not an entity    *)
(* before the call and its previous type otherwise; get_entity_type of the *)
(* target is the supplied target type when the target was not an entity    *)
(* before the call and is not the source, its previous type when it was an *)
(* entity, and the source type when it is the new source itself.           *)
C3_SuppliedTypeOnlyForNewNames ==
  (AddReturned /\ ValidTypes(call)) =>
    /\ get_entity_type(graph, call.source) =
         IF has_node(pre, call.source)
           THEN get_entity_type(pre, call.source) ELSE call.source_type
    /\ get_entity_type(graph, call.target) =
         IF has_node(pre, call.target) THEN get_entity_type(pre, call.target)
         ELSE IF call.target = call.source THEN call.source_type
         ELSE call.target_type

(* a new source gets the supplied type while an existing target keeps a    *)
(* type other than the supplied one                                        *)
C3_Witness ==
  /\ AddReturned /\ ValidTypes(call)
  /\ ~has_node(pre, call.source)
  /\ get_entity_type(graph, call.source) = call.source_type
  /\ has_node(pre, call.target)
  /\ get_entity_type(graph, call.target) # call.target_type

(* What a successful add_relation leaves besides the types of new names:   *)
(* it returns True, both names are entities, the relation of the ordered   *)
(* pair has the supplied type, and every other entity and relation is as   *)
(* before.                                                                 *)
AddEffect(c) ==
  /\ ret = TRUE
  /\ NodeNames(graph) = NodeNames(pre) \cup {c.source, c.target}
  /\ has_edge(graph, c.source, c.target)
  /\ edge_type(graph, c.source, c.target) = c.relation_type
  /\ \A n \in NodeNames(pre) :
       /\ get_entity_type(graph, n) = get_entity_type(pre, n)
       /\ node_label(graph, n) = node_label(pre, n)
  /\ \A u \in NodeNames(graph), v \in NodeNames(graph) :
       <<u, v>> # <<c.source, c.target>> =>
         /\ has_edge(graph, u, v) = has_edge(pre, u, v)
         /\ has_edge(pre, u, v) => edge_type(graph, u, v) = edge_type(pre, u, v)

(* C4 as stated: add_relation with valid types and string names returns    *)
(* True; then both names are entities, a source that was unseen has the    *)
(* source type, a target that was unseen has the target type, the relation *)
(* of the pair has the relation type, and all else is unchanged.           *)
C4_Original ==
  (AddReturned /\ ValidTypes(call)) =>
    /\ AddEffect(call)
    /\ ~has_node(pre, call.source) =>
         get_entity_type(graph, call.source) = call.source_type
    /\ ~has_node(pre, call.target) =>
         get_entity_type(graph, call.target) = call.target_type

(* C4 amended: as stated, except that an unseen target has the target type *)
(* only when it is not the source; a new entity related to itself has the  *)
(* source type.                                                            *)
C4_SuccessEffect ==
  (AddReturned /\ ValidTypes(call)) =>
    /\ AddEffect(call)
    /\ ~has_node(pre, call.source) =>
         get_entity_type(graph, call.source) = call.source_type
    /\ (~has_node(pre, call.target) /\ call.target # call.source) =>
         get_entity_type(graph, call.target) = call.target_type

(* an existing entity is related to a new name while the graph holds       *)
(* another relation                                                        *)
C4_Witness ==
  /\ AddReturned /\ ValidTypes(call) /\ ret = TRUE
  /\ has_node(pre, call.source) /\ ~has_node(pre, call.target)
  /\ NumRelations(pre) > 0
  /\ NumRelations(graph) = NumRelations(pre) + 1
  /\ get_entity_type(graph, call.target) = call.target_type

(* C5: the graph holds at most one relation per ordered pair; a successful *)
(* add_relation on a pair that is already related leaves the number of     *)
(* relations as it was and only the new relation type retrievable, and the *)
(* reverse pair is a record of its own that is not affected.               *)
C5_OneRelationPerOrderedPair ==
  /\ \A u \in NodeNames(graph) : \A i \in DOMAIN graph.adj[u], j \in DOMAIN graph.adj[u] :
       graph.adj[u][i].to = graph.adj[u][j].to => i = j
  /\ (AddReturned /\ ret = TRUE /\ has_edge(pre, call.source, call.target)) =>
       /\ NumRelations(graph) = NumRelations(pre)
       /\ \A i \in DOMAIN graph.adj[call.source] :
            graph.adj[call.source][i].to = call.target =>
              graph.adj[call.source][i].type = call.relation_type
       /\ has_edge(graph, call.target, call.source) = has_edge(pre, call.target, call.source)
       /\ (call.source # call.target /\ has_edge(pre, call.target, call.source)) =>
            edge_type(graph, call.target, call.source) =
              edge_type(pre, call.target, call.source)

(* a related pair is given another relation type while the reverse pair is *)
(* related too                                                             *)
C5_Witness ==
  /\ AddReturned /\ ret = TRUE
  /\ call.source # call.target
  /\ has_edge(pre, call.source, call.target)
  /\ edge_type(pre, call.source, call.target) # call.relation_type
  /\ has_edge(pre, call.target, call.source)
  /\ edge_type(graph, call.target, call.source) # call.relation_type

(* C6: after any sequence of valid and invalid add_relation calls from the *)
(* empty graph, every entity has a type of ENTITY_TYPES, every relation a  *)
(* type of RELATION_TYPES, and both ends of every relation are entities.   *)
C6_SchemaValid ==
  /\ \A i \in DOMAIN graph.node : graph.node[i].type \in DOMAIN ENTITY_TYPES
  /\ DOMAIN graph.adj = NodeNames(graph)
  /\ \A u \in DOMAIN graph.adj : \A i \in DOMAIN graph.adj[u] :
       /\ graph.adj[u][i].type \in DOMAIN RELATION_TYPES
       /\ graph.adj[u][i].to \in NodeNames(graph)

(* a rejected call on a graph that valid calls have built                  *)
C6_Witness ==
  /\ AddReturned /\ ret = FALSE
  /\ NumRelations(graph) >= 2
  /\ Cardinality(NodeNames(graph)) >= 2

---------------------------------------------------------------------------
(* Properties of the traversals (specifications SpecQuery and SpecPaths).  *)

QueryReturned == pc = "returned" /\ call.op = "query_related_entities"

FindReturned == pc = "returned" /\ call.op = "find_paths"

(* the stored relations as triples (source, relation type, target) *)
Triples(G) == {<<e[1], edge_type(G, e[1], e[2]), e[2]>> : e \in Edges(G)}

Range(f) == {f[i] : i \in DOMAIN f}

(* the tuples query_related_entities reports for the outgoing relations of *)
(* e, in adjacency order                                                   *)
DirectRelations(G, e) ==
  [i \in DOMAIN G.adj[e] |->
     <<e, G.adj[e][i].type, G.adj[e][i].to, get_entity_type(G, G.adj[e][i].to)>>]

(* C7 as stated: query_related_entities(e, None, 0) returns the empty list *)
(* for every entity e, also for one with outgoing relations.               *)
C7_Original ==
  (QueryReturned /\ call.relation = None /\ call.max_hops = 0) => ret = <<>>

(* C7 amended: query_related_entities(e, None, 0) returns exactly the      *)
(* outgoing relations of e, one tuple (e, relation type, neighbour,        *)
(* neighbour type) per successor; it is empty only when e is absent or has *)
(* no outgoing relation.                                                   *)
C7_HopZeroIsDirectRelations ==
  (QueryReturned /\ call.relation = None /\ call.max_hops = 0) =>
    ret = IF has_node(graph, call.entity)
            THEN DirectRelations(graph, call.entity) ELSE <<>>

(* an entity with two outgoing relations queried with max_hops = 0 *)
C7_Witness ==
  /\ QueryReturned /\ call.relation = None /\ call.max_hops = 0
  /\ has_node(graph, call.entity)
  /\ Len(graph.adj[call.entity]) = 2
  /\ Len(ret) = 2

(* the entities reached from the set S by chains of relations of type f *)
RECURSIVE ReachedVia(_, _, _)
ReachedVia(G, S, f) ==
  LET more == S \cup {e[2] : e \in {d \in Edges(G) :
                                     d[1] \in S /\ edge_type(G, d[1], d[2]) = f}}
  IN  IF more = S THEN S ELSE ReachedVia(G, more, f)

FluGraph ==
  { <<"Flu", "HAS_SYMPTOM", "Fever">>, <<"Flu", "HAS_SYMPTOM", "Fatigue">>,
    <<"Flu", "REQUIRES", "BloodTest">> }

(* C8: with a relation filter f and max_hops >= 1 the result holds no      *)
(* tuple whose relation type is not f, and the source of every tuple is    *)
(* the queried entity or is reached from it by a chain of relations of     *)
(* type f; on the graph Flu -HAS_SYMPTOM-> Fever, Flu -HAS_SYMPTOM->       *)
(* Fatigue, Flu -REQUIRES-> BloodTest the query (Flu, HAS_SYMPTOM, 1)      *)
(* returns exactly the two HAS_SYMPTOM relations.                          *)
C8_FilterPrunes ==
  (QueryReturned /\ ~Falsy(call.relation) /\ call.max_hops >= 1) =>
    /\ \A i \in DOMAIN ret :
         /\ ret[i][2] = call.relation
         /\ <<ret[i][1], ret[i][2], ret[i][3]>> \in Triples(graph)
         /\ ret[i][1] \in ReachedVia(graph, {call.entity}, call.relation)
    /\ (/\ call.entity = "Flu" /\ call.relation = "HAS_SYMPTOM"
        /\ call.max_hops = 1
        /\ Triples(graph) = FluGraph) =>
         /\ Len(ret) = 2
         /\ Range(ret) = { <<"Flu", "HAS_SYMPTOM", "Fever", "Symptom">>,
                           <<"Flu", "HAS_SYMPTOM", "Fatigue", "Symptom">> }

(* the Flu graph queried for HAS_SYMPTOM *)
C8_Witness ==
  /\ QueryReturned
  /\ Triples(graph) = FluGraph
  /\ call.entity = "Flu" /\ call.relation = "HAS_SYMPTOM" /\ call.max_hops = 1
  /\ Len(ret) = 2

(* the entities at most k relations passing the filter f away from e *)
RECURSIVE ReachedWithin(_, _, _, _)
ReachedWithin(G, e, f, k) ==
  IF k = 0 THEN {e}
  ELSE LET near == ReachedWithin(G, e, f, k - 1)
       IN  near \cup {d[2] : d \in {x \in Edges(G) :
                                      /\ x[1] \in near
                                      /\ (Falsy(f) \/ edge_type(G, x[1], x[2]) = f)}}

(* the least number of relations passing f that lead from e to u *)
Distance(G, e, f, u) ==
  CHOOSE j \in 0..Len(G.node) :
    /\ u \in ReachedWithin(G, e, f, j)
    /\ \A i \in 0..(j - 1) : u \notin ReachedWithin(G, e, f, i)

(* C24: for a present entity e, a filter f and max_hops k the result holds *)
(* exactly the tuples (u, r, v, type of v) of the stored relations u -r-> v *)
(* that pass the filter and whose source u is at most k filter-passing     *)
(* relations away from e (e itself at distance 0), and the sources appear  *)
(* in non-decreasing order of their distance from e.                       *)
C24_ResultIsBoundedReachability ==
  (QueryReturned /\ has_node(pre, call.entity)) =>
    LET e == call.entity
        f == call.relation
        k == call.max_hops
    IN  /\ Range(ret) =
             { <<x[1], edge_type(pre, x[1], x[2]), x[2], get_entity_type(pre, x[2])>> :
                 x \in {y \in Edges(pre) :
                          /\ y[1] \in ReachedWithin(pre, e, f, k)
                          /\ (Falsy(f) \/ edge_type(pre, y[1], y[2]) = f)} }
        /\ \A i, j \in DOMAIN ret :
             i < j => Distance(pre, e, f, ret[i][1]) <= Distance(pre, e, f, ret[j][1])

(* a query with max_hops = 1 whose result holds relations of the entity    *)
(* followed by relations of a neighbour                                    *)
C24_Witness ==
  /\ QueryReturned
  /\ call.max_hops = 1
  /\ has_node(pre, call.entity)
  /\ Len(ret) = 3
  /\ ret[1][1] = call.entity
  /\ ret[3][1] # call.entity

(* C25: every query returns, also on a graph with a cycle or a self-loop;  *)
(* no stored relation appears twice in the result, and the result is never *)
(* longer than the number of stored relations.                             *)
C25_EachRelationAtMostOnce ==
  QueryReturned =>
    /\ \A i, j \in DOMAIN ret : ret[i] = ret[j] => i = j
    /\ \A i \in DOMAIN ret : <<ret[i][1], ret[i][2], ret[i][3]>> \in Triples(pre)
    /\ Len(ret) <= NumRelations(pre)

(* a query with max_hops = 2 from an entity with a self-loop and another   *)
(* outgoing relation                                                       *)
C25_Witness ==
  /\ QueryReturned
  /\ call.max_hops = 2
  /\ has_node(pre, call.entity)
  /\ has_edge(pre, call.entity, call.entity)
  /\ Len(ret) >= 2

(* the nodes of a returned path of triples *)
NodesOf(rp) == <<rp[1][1]>> \o [i \in DOMAIN rp |-> rp[i][3]]

(* C9: find_paths(a, b, k) returns only paths of 1 to k triples that start *)
(* at a, end at b, repeat no node, are chained, and whose triples are      *)
(* stored relations with their stored type; for a = b it returns nothing,  *)
(* and it never returns a path without triples.                            *)
C9_PathsAreSimpleAndBounded ==
  FindReturned =>
    /\ \A i \in DOMAIN ret :
         LET rp == ret[i]
             nodes == NodesOf(rp)
         IN  /\ Len(rp) >= 1 /\ Len(rp) <= call.max_length
             /\ rp[1][1] = call.source
             /\ rp[Len(rp)][3] = call.target
             /\ \A j \in DOMAIN rp :
                  /\ has_edge(graph, rp[j][1], rp[j][3])
                  /\ rp[j][2] = edge_type(graph, rp[j][1], rp[j][3])
             /\ \A j \in 1..(Len(rp) - 1) : rp[j][3] = rp[j + 1][1]
             /\ \A j \in DOMAIN nodes, l \in DOMAIN nodes :
                  nodes[j] = nodes[l] => j = l
    /\ call.source = call.target => ret = <<>>

(* a path of two relations is returned from a graph in which an entity is  *)
(* related to itself                                                       *)
C9_Witness ==
  /\ FindReturned
  /\ \E i \in DOMAIN ret : Len(ret[i]) = 2
  /\ \E n \in NodeNames(graph) : has_edge(graph, n, n)

(* the simple node paths of exactly n relations that start at a *)
RECURSIVE SimpleFrom(_, _, _)
SimpleFrom(G, a, n) ==
  IF n = 0 THEN {<<a>>}
  ELSE UNION {{Append(q, G.adj[q[n]][i].to) :
                 i \in {j \in DOMAIN G.adj[q[n]] : G.adj[q[n]][j].to \notin Range(q)}} :
              q \in SimpleFrom(G, a, n - 1)}

(* the simple node paths from a to b of 1 to k relations *)
SimplePaths(G, a, b, k) ==
  IF ~has_node(G, a) THEN {}
  ELSE UNION {{q \in SimpleFrom(G, a, n) : q[n + 1] = b} : n \in 1..k}

PneumoniaGraph ==
  { <<"Pneumonia", "HAS_SYMPTOM", "Cough">>, <<"Cough", "ACCOMPANIES", "Fatigue">>,
    <<"Pneumonia", "AFFECTS", "Lungs">> }

(* C10: find_paths(a, b, k) returns every directed simple path from a to b *)
(* of at least one and at most k relations exactly once, not only the      *)
(* shortest; on the graph Pneumonia -HAS_SYMPTOM-> Cough -ACCOMPANIES->    *)
(* Fatigue, Pneumonia -AFFECTS-> Lungs, find_paths(Pneumonia, Fatigue, 2)  *)
(* is the one path of two relations and find_paths(Pneumonia, Fatigue, 1)  *)
(* is empty.                                                               *)
C10_AllSimplePaths ==
  FindReturned =>
    LET expected == SimplePaths(graph, call.source, call.target, call.max_length)
    IN  /\ {NodesOf(ret[i]) : i \in DOMAIN ret} = expected
        /\ Len(ret) = Cardinality(expected)
        /\ (/\ call.source = "Pneumonia" /\ call.target = "Fatigue"
            /\ Triples(graph) = PneumoniaGraph) =>
             /\ call.max_length = 2 =>
                  ret = << << <<"Pneumonia", "HAS_SYMPTOM", "Cough">>,
                              <<"Cough", "ACCOMPANIES", "Fatigue">> >> >>
             /\ call.max_length = 1 => ret = <<>>

(* two paths of different lengths between the same two entities are both   *)
(* returned                                                                *)
C10_Witness ==
  /\ FindReturned
  /\ Len(ret) = 2
  /\ Len(ret[1]) # Len(ret[2])

---------------------------------------------------------------------------
(* Properties of the retrieval (specification SpecRetrieval).              *)

LookupReturned == pc = "returned" /\ call.op = "get_entity_type"

(* C11: a query for a name that is not an entity gives an empty result and *)
(* no error: query_related_entities(e, f, k) is empty when e is absent,    *)
(* find_paths(a, b, k) is empty when a or b is absent, get_entity_type of  *)
(* an absent name is None; the graph is as it was before the query.        *)
C11_AbsentNameEmptyResult ==
  /\ (QueryReturned /\ ~has_node(pre, call.entity)) =>
       (ret = <<>> /\ graph = pre)
  /\ (FindReturned /\ (~has_node(pre, call.source) \/ ~has_node(pre, call.target))) =>
       (ret = <<>> /\ graph = pre)
  /\ (LookupReturned /\ ~has_node(pre, call.entity)) =>
       (ret = None /\ graph = pre)

(* paths are asked from an entity with relations to a name that is not an  *)
(* entity                                                                  *)
C11_Witness ==
  /\ FindReturned
  /\ has_node(graph, call.source) /\ graph.adj[call.source] # <<>>
  /\ ~has_node(graph, call.target)
  /\ call.max_length = 2
  /\ ret = <<>>

RetrieveReturned == pc = "returned" /\ call.op = "retrieve_relevant_info"

RiskReturned == pc = "returned" /\ call.op = "analyze_risk_level"

(* C14: query_related_entities, find_paths, retrieve_relevant_info and the *)
(* relation chains of the risk analysis never change the graph: after any  *)
(* of these calls, on any arguments, entities, entity types, relations and *)
(* relation types are what they were before.                               *)
C14_ReadsDoNotMutate ==
  (QueryReturned \/ FindReturned \/ RetrieveReturned \/ RiskReturned) =>
    /\ graph = pre
    /\ NodeNames(graph) = NodeNames(pre)
    /\ \A n \in NodeNames(pre) : get_entity_type(graph, n) = get_entity_type(pre, n)
    /\ Triples(graph) = Triples(pre)

(* the risk analysis has returned chains for the candidates of a retrieval *)
(* that was given a known and an unknown symptom                           *)
C14_Witness ==
  /\ RiskReturned
  /\ ret # <<>>
  /\ \E i \in DOMAIN call.symptoms : ~has_node(graph, call.symptoms[i])
  /\ NumRelations(graph) >= 2

(* the successors of d over a relation of type r whose type is in types *)
DirectTargets(G, d, r, types) ==
  {v \in NodeNames(G) :
     /\ has_edge(G, d, v) /\ edge_type(G, d, v) = r
     /\ get_entity_type(G, v) \in types}

FeverCoughGraph ==
  { <<"Flu", "HAS_SYMPTOM", "Fever">>, <<"Flu", "HAS_SYMPTOM", "Cough">> }

(* C15: on the graph Flu -HAS_SYMPTOM-> Fever, Flu -HAS_SYMPTOM-> Cough    *)
(* the retrieval for the symptoms [Fever, Cough] gives the candidate       *)
(* diseases {Flu}; in general a Disease with a HAS_SYMPTOM relation to a   *)
(* reported symptom is a candidate.                                        *)
C15_DiseaseOfSymptomIsCandidate ==
  RetrieveReturned =>
    /\ \A d \in NodeNames(graph) :
         (/\ get_entity_type(graph, d) = "Disease"
          /\ \E i \in DOMAIN call.symptoms :
               /\ has_edge(graph, d, call.symptoms[i])
               /\ edge_type(graph, d, call.symptoms[i]) = "HAS_SYMPTOM")
         => d \in ret.possible_diseases
    /\ (Triples(graph) = FeverCoughGraph /\ call.symptoms = <<"Fever", "Cough">>)
         => ret.possible_diseases = {"Flu"}

(* C16: whenever query_related_entities(symptom, None, 1) returns a tuple  *)
(* whose source is the queried symptom, whose target has type Disease and  *)
(* whose relation type is CAUSES, the target of that tuple is a candidate  *)
(* disease.                                                                *)
C16_CausedDiseaseIsCandidate ==
  RetrieveReturned =>
    \A i \in DOMAIN call.symptoms :
      \A t \in SeqRange(query_related_entities(graph, call.symptoms[i], None, 1)) :
        (t[1] = call.symptoms[i] /\ t[4] = "Disease" /\ t[2] = "CAUSES")
          => t[3] \in ret.possible_diseases

(* C17: for each candidate disease d the lists symptoms, examinations and  *)
(* affected_body_parts hold exactly the successors of d over a             *)
(* HAS_SYMPTOM, REQUIRES or AFFECTS relation whose stored type is Symptom, *)
(* Examination or BodyPart; no entity two relations away from d is in      *)
(* them.                                                                   *)
C17_BundlesAreDirectNeighbours ==
  RetrieveReturned =>
    \A d \in ret.possible_diseases :
      /\ SeqRange(ret.disease_info[d].symptoms) =
           DirectTargets(graph, d, "HAS_SYMPTOM", {"Symptom"})
      /\ SeqRange(ret.disease_info[d].examinations) =
           DirectTargets(graph, d, "REQUIRES", {"Examination"})
      /\ SeqRange(ret.disease_info[d].affected_body_parts) =
           DirectTargets(graph, d, "AFFECTS", {"BodyPart"})

(* C18: for each candidate disease d the list treatments consists of the   *)
(* neighbours of d over a TREATS relation whose stored type is Treatment   *)
(* or Medication.                                                          *)
C18_TreatmentsByNeighbourType ==
  RetrieveReturned =>
    \A d \in ret.possible_diseases :
      SeqRange(ret.disease_info[d].treatments) =
        DirectTargets(graph, d, "TREATS", {"Treatment", "Medication"})

(* the pairs of positions i < j of a list whose entities are joined by a   *)
(* path of at most two relations                                           *)
JoinedPairs(G, symptoms) ==
  {p \in (DOMAIN symptoms) \X (DOMAIN symptoms) :
     p[1] < p[2] /\ SimplePaths(G, symptoms[p[1]], symptoms[p[2]], 2) # {}}

(* C19: for positions i < j of the symptom list the connections hold an    *)
(* entry for (symptoms[i], symptoms[j]) exactly when                       *)
(* find_paths(symptoms[i], symptoms[j], 2) is not empty, its paths are     *)
(* that result, and no entry is recorded for a pair without a path.        *)
C19_ConnectionsOfJoinedPairs ==
  RetrieveReturned =>
    LET symptoms == call.symptoms
        joined   == JoinedPairs(graph, symptoms)
        entries  == ret.symptom_connections
    IN  /\ Len(entries) = Cardinality(joined)
        /\ \A p \in joined : \E k \in DOMAIN entries :
             /\ entries[k].symptom1 = symptoms[p[1]]
             /\ entries[k].symptom2 = symptoms[p[2]]
        /\ \A k \in DOMAIN entries :
             /\ entries[k].paths # <<>>
             /\ entries[k].paths =
                  find_paths(graph, entries[k].symptom1, entries[k].symptom2, 2, FALSE)
             /\ \E p \in joined :
                  /\ entries[k].symptom1 = symptoms[p[1]]
                  /\ entries[k].symptom2 = symptoms[p[2]]

(* two reported symptoms are joined by a relation and by a path of two     *)
(* relations, and both paths are in the entry of the pair                  *)
C19_Witness ==
  /\ RetrieveReturned
  /\ Len(call.symptoms) = 2
  /\ Len(ret.symptom_connections) = 1
  /\ Len(ret.symptom_connections[1].paths) = 2
  /\ Len(ret.symptom_connections[1].paths[1]) # Len(ret.symptom_connections[1].paths[2])

(* C20: the retrieval for an empty symptom list, or for symptoms none of   *)
(* which is an entity, returns no candidate disease, no bundle and no      *)
(* connection; a symptom that is not an entity does not keep the others    *)
(* from being processed: the candidates, bundles and connections are those *)
(* of the list without it.                                                 *)
C20_UnknownSymptomsGiveEmptyResult ==
  RetrieveReturned =>
    LET known == SelectSeq(call.symptoms, LAMBDA x : has_node(graph, x))
    IN  /\ known = <<>> =>
             /\ ret.possible_diseases = {}
             /\ DOMAIN ret.disease_info = {}
             /\ ret.symptom_connections = <<>>
        /\ \A x \in SeqRange(call.symptoms) \ SeqRange(known) :
             ret.symptom_relations[x] = <<>>
        /\ ret.possible_diseases =
             UNION {candidates_of(query_related_entities(graph, x, None, 1), x) :
                      x \in SeqRange(known)}
        /\ DOMAIN ret.disease_info = ret.possible_diseases
        /\ ret.symptom_connections = symptom_connections(graph, known, FALSE)

(* an unknown symptom is reported before a known one that has a candidate  *)
C20_Witness ==
  /\ RetrieveReturned
  /\ Len(call.symptoms) >= 2
  /\ ~has_node(graph, call.symptoms[1])
  /\ has_node(graph, call.symptoms[2])
  /\ ret.possible_diseases # {}

(* C21: the retrieval called with None for the symptom list returns empty  *)
(* bundles (no candidate disease, no bundle, no connection) and raises no  *)
(* error.                                                                  *)
C21_NoneListGivesEmptyBundles ==
  (/\ pc \in {"returned", "raised"}
   /\ call.op = "retrieve_relevant_info"
   /\ call.symptoms \notin Seq(SymptomInputs))
  => /\ pc = "returned"
     /\ ret.possible_diseases = {}
     /\ DOMAIN ret.disease_info = {}
     /\ ret.symptom_connections = <<>>

(* C29: the candidate diseases of a retrieval hold no name twice and every *)
(* name among them is an entity of the graph whose stored type is Disease. *)
C29_CandidatesAreDiseases ==
  RetrieveReturned =>
    \A d \in ret.possible_diseases :
      has_node(graph, d) /\ get_entity_type(graph, d) = "Disease"

(* the chain of the node path q to the symptom s: the pairs (entity,       *)
(* relation type) of its relations in path order, then s                   *)
ChainOfPath(G, q, s) ==
  [i \in 1..Len(q) |->
     IF i < Len(q) THEN <<q[i], edge_type(G, q[i], q[i + 1])>> ELSE <<s>>]

(* one entry per listed disease, listed symptom and simple path of at most *)
(* two relations between them                                              *)
ChainSlots(G, diseases, symptoms) ==
  UNION {{<<p[1], p[2], q>> : q \in SimplePaths(G, diseases[p[1]], symptoms[p[2]], 2)} :
         p \in (DOMAIN diseases) \X (DOMAIN symptoms)}

(* C30: the risk analysis produces exactly one chain for every path of     *)
(* find_paths(d, s, 2), over every listed candidate d and every input      *)
(* symptom s; a chain lists the source entity and the relation type of     *)
(* every relation of its path in path order, starts at d and ends with s;  *)
(* a pair (d, s) without a path contributes no chain.                      *)
C30_OneChainPerPath ==
  RiskReturned =>
    LET diseases == call.possible_diseases
        symptoms == call.symptoms
        slots    == ChainSlots(graph, diseases, symptoms)
        chain(x) == ChainOfPath(graph, x[3], symptoms[x[2]])
    IN  /\ Len(ret) = Cardinality(slots)
        /\ \A k \in DOMAIN ret :
             \E x \in slots :
               /\ ret[k] = chain(x)
               /\ ret[k][1][1] = diseases[x[1]]
               /\ ret[k][Len(ret[k])] = <<symptoms[x[2]]>>
        /\ \A x \in slots :
             Cardinality({k \in DOMAIN ret : ret[k] = chain(x)})
               = Cardinality({y \in slots : chain(y) = chain(x)})

(* two chains of different lengths lead from one candidate to one symptom, *)
(* and another symptom of the list has no chain                            *)
C30_Witness ==
  /\ RiskReturned
  /\ Len(call.symptoms) = 2
  /\ \E i, j \in DOMAIN ret :
       /\ ret[i][1][1] = ret[j][1][1]
       /\ ret[i][Len(ret[i])] = ret[j][Len(ret[j])]
       /\ Len(ret[i]) # Len(ret[j])
  /\ \E s \in SeqRange(call.symptoms) : \A k \in DOMAIN ret : ret[k][Len(ret[k])] # <<s>>

---------------------------------------------------------------------------
(* Properties of the snapshots (specification SpecSnapshot).               *)

LoadReturned == pc = "returned" /\ call.op = "load_from_file"

SaveReturned == pc = "returned" /\ call.op = "save_to_file"

(* C12: whenever load_from_file returns False (file missing, unreadable,   *)
(* corrupt, or holding data that is not a usable graph) the in-memory      *)
(* graph is exactly the graph that was there before the call.              *)
C12_FailedLoadKeepsGraph ==
  (LoadReturned /\ ret = FALSE) => graph = pre

(* C13: a successful load_from_file of a file that save_to_file wrote from *)
(* a store A makes the entities, entity types, relations and relation      *)
(* types of the loading store, fresh or populated, those of A when it was  *)
(* saved, with nothing of its previous content left; save_to_file leaves   *)
(* the graph of A unchanged.                                               *)
C13_SaveLoadRoundTrip ==
  /\ (LoadReturned /\ ret = TRUE) =>
       LET A == saved[call.filename]
       IN  /\ A # NoSnapshot
           /\ IsDiGraph(graph)
           /\ NodeNames(graph) = NodeNames(A)
           /\ \A n \in NodeNames(A) :
                /\ get_entity_type(graph, n) = get_entity_type(A, n)
                /\ node_label(graph, n) = node_label(A, n)
           /\ Triples(graph) = Triples(A)
           /\ graph = A
  /\ SaveReturned => graph = pre

(* a populated store loads the snapshot of another graph and keeps none of *)
(* the entities and relations it had                                       *)
C13_Witness ==
  /\ LoadReturned /\ ret = TRUE
  /\ IsDiGraph(pre) /\ NumRelations(pre) >= 2
  /\ NumRelations(graph) >= 2
  /\ Triples(pre) \cap Triples(graph) = {}
  /\ NodeNames(pre) \ NodeNames(graph) # {}

(* the entities and the related ordered pairs of what self.graph holds *)
EntitiesOf(obj) == IF IsDiGraph(obj) THEN NodeNames(obj) ELSE {}

PairsOf(obj) == IF IsDiGraph(obj) THEN Edges(obj) ELSE {}

(* C28: a call that is not a successful load_from_file removes no entity   *)
(* and no relation: the entities and the related pairs the store had when  *)
(* the call was entered are still there when it returns.                   *)
C28_OnlySuccessfulLoadRemoves ==
  (pc = "returned" /\ ~(LoadReturned /\ ret = TRUE)) =>
    /\ EntitiesOf(pre) \subseteq EntitiesOf(graph)
    /\ PairsOf(pre) \subseteq PairsOf(graph)

---------------------------------------------------------------------------
(* Properties of ingestion and of the drawing (specification SpecIngest).  *)

IngestReturned == pc = "returned" /\ call.op = "ingest"

VisualizeReturned == pc = "returned" /\ call.op = "visualize"

(* The items of a batch that are objects with all five keys and with types *)
(* of the schema.                                                          *)
ValidTuples(items) == SelectSeq(items, passes_filter)

(* C22: after a batch is ingested the graph is the one obtained by adding  *)
(* the valid tuples of the batch alone, in order, to the graph before;     *)
(* invalid and malformed items do not affect the others.                   *)
C22_BatchEqualsValidTuplesAlone ==
  IngestReturned => graph = add_relations(pre, ValidTuples(call.items))

(* The number of entities visualize selects from G under the cap. *)
SelectedCount(G, cap) == IF cap < Len(G.node) THEN cap ELSE Len(G.node)

SelectedNames(G, cap) == {G.node[i].name : i \in 1..SelectedCount(G, cap)}

(* C23: a drawing with node cap N selects exactly the first                *)
(* min(N, number of entities) entities in insertion order, never more than *)
(* N, and exactly the relations whose two endpoints are selected, each     *)
(* once; the graph is not modified.                                        *)
C23_VisualizeSelectsFirstNodes ==
  VisualizeReturned =>
    LET k == SelectedCount(pre, call.max_nodes)
        within == {e \in Edges(pre) : e[1] \in SelectedNames(pre, call.max_nodes)
                                      /\ e[2] \in SelectedNames(pre, call.max_nodes)}
    IN  /\ Len(ret.nodes) = k
        /\ k <= call.max_nodes
        /\ \A i \in 1..k : ret.nodes[i] = pre.node[i].name
        /\ {<<ret.edges[i][1], ret.edges[i][2]>> : i \in DOMAIN ret.edges} = within
        /\ Len(ret.edges) = Cardinality(within)
        /\ graph = pre

(* A drawing whose cap leaves an entity out, with a relation that is drawn *)
(* and a relation that is not.                                             *)
C23_Witness ==
  /\ VisualizeReturned
  /\ call.max_nodes < Len(pre.node)
  /\ ret.edges # <<>>
  /\ Len(ret.edges) < Cardinality(Edges(pre))

(* C26: an add_relation that answers False leaves the graph as it was.     *)
C26_FailedAddLeavesGraphUnchanged ==
  (AddReturned /\ ret = FALSE) => graph = pre

---------------------------------------------------------------------------
(* Properties of interleaved calls (specification SpecInterleaved).        *)

(* the relations as the adjacency dictionaries hold them *)
StoredPairs(G) ==
  UNION {{<<u, G.adj[u][i].to>> : i \in DOMAIN G.adj[u]} : u \in DOMAIN G.adj}

TypedEntity(G, n) == has_node(G, n) /\ G.node[NodeIndex(G, n)].type \in DOMAIN ENTITY_TYPES

(* C27: add_relation writes the source entity, then the target entity,     *)
(* then the relation; at every point between the writes of interleaved     *)
(* calls both endpoints of every stored relation are entities with a type  *)
(* of the registry, and every relation a reader is given has such          *)
(* endpoints.                                                              *)
C27_RelationsHaveTypedEndpoints ==
  /\ \A e \in StoredPairs(graph) : TypedEntity(graph, e[1]) /\ TypedEntity(graph, e[2])
  /\ \A w \in Writers :
       pc[w] = "writing" =>
         /\ call[w].step >= 2 => TypedEntity(graph, call[w].source)
         /\ call[w].step >= 3 => TypedEntity(graph, call[w].target)
  /\ \A r \in Readers :
       pc[r] = "returned" =>
         \A i \in DOMAIN ret[r] :
           /\ TypedEntity(graph, ret[r][i][1])
           /\ TypedEntity(graph, ret[r][i][3])
           /\ ret[r][i][4] \in DOMAIN ENTITY_TYPES

(* one caller has written its source and its target, the other only its    *)
(* source, a relation of a third call is stored, and the reader has read   *)
(* a relation                                                              *)
C27_Witness ==
  /\ pc["w1"] = "writing" /\ call["w1"].step = 3
  /\ pc["w2"] = "writing" /\ call["w2"].step = 2
  /\ ~has_edge(graph, call["w1"].source, call["w1"].target)
  /\ StoredPairs(graph) # {}
  /\ pc["r1"] = "returned" /\ ret["r1"] # <<>>


=============================================================================
